---- MODULE Spec2Model ----
(***************************************************************************)
(* Model of package testt (src/testt.go): the fakeT test double, the       *)
(* harness functions ExpectFatal, CaptureFatal, ExpectError and            *)
(* ParallelFatal, and the panic/recover machinery they rest on.            *)
(*                                                                         *)
(* A function under test is data: a name (what funcName reports) and a     *)
(* body, a sequence of steps.  A step is a call of a testing.TB method on  *)
(* one of the doubles in lexical scope, a panic, a block forever, or a     *)
(* nested harness call.  Every goroutine is a thread with a stack of       *)
(* frames; a panic in flight unwinds the stack frame by frame and only a   *)
(* CaptureFatal frame runs a deferred recover.                             *)
(***************************************************************************)
EXTENDS Integers, Sequences, FiniteSets, TLC

VARIABLES
    input,      \* the call the test makes on the real testing.TB
    threads,    \* goroutines: [stack, pan, rv, exited]; thread 1 is the caller's
    doubles,    \* the fakeT values constructed so far
    pfs,        \* the ParallelFatal invocations: [fnErrs, mu, wg]
    ctxCalls,   \* the calls the real testing.TB has received, in order
    crashed,    \* the panic that ended the process, or NoPanic
    catches     \* history: which barrier recovered a failure of which double

vars == <<input, threads, doubles, pfs, ctxCalls, crashed, catches>>

-----------------------------------------------------------------------------
(* Bounds of the model *)

MaxSteps == 2   \* longest body of a flat function under test
MaxFns == 2     \* most functions handed to one ParallelFatal call

-----------------------------------------------------------------------------
(* Values, and the formatting of package fmt as the double uses it *)

Str(s) == [ty |-> "string", v |-> s]
Num(n) == [ty |-> "int", v |-> n]
Map(m) == [ty |-> "map", v |-> m]

\* The order in which fmt prints the keys of a map[string]error.
NameOrder == <<"f", "g", "h">>
Names == {NameOrder[i] : i \in DOMAIN NameOrder}

RECURSIVE Join(_, _)
Join(strs, sep) ==
    IF strs = <<>> THEN ""
    ELSE IF Len(strs) = 1 THEN Head(strs)
    ELSE Head(strs) \o sep \o Join(Tail(strs), sep)

\* %v of a value: a string as it is, an int in decimal, a map as
\* map[k1:v1 k2:v2] with the keys sorted.
Show(val) ==
    CASE val.ty = "string" -> val.v
      [] val.ty = "int" -> ToString(val.v)
      [] val.ty = "map" ->
            LET keys == SelectSeq(NameOrder, LAMBDA k : k \in DOMAIN val.v)
            IN "map[" \o Join([i \in DOMAIN keys |-> keys[i] \o ":" \o val.v[keys[i]]], " ")
                      \o "]"

IsVerb(piece) == piece \in {"%v", "%s", "%d"}

\* One verb applied to one operand.
Verb(piece, val) ==
    CASE piece = "%v" -> Show(val)
      [] piece = "%s" ->
            IF val.ty = "int" THEN "%!s(int=" \o Show(val) \o ")" ELSE Show(val)
      [] piece = "%d" ->
            IF val.ty = "int" THEN Show(val)
            ELSE "%!d(" \o val.ty \o "=" \o Show(val) \o ")"

RECURSIVE Sprintf(_, _)
\* fmt.Sprintf: the format is a sequence of pieces, literal text or a verb;
\* verbs take the operands in order, a verb without operand prints MISSING
\* and operands left over are listed as EXTRA.
Sprintf(format, args) ==
    IF format = <<>> THEN
        IF args = <<>> THEN ""
        ELSE "%!(EXTRA "
                \o Join([i \in DOMAIN args |-> args[i].ty \o "=" \o Show(args[i])], ", ")
                \o ")"
    ELSE IF IsVerb(Head(format)) THEN
        IF args = <<>>
        THEN "%!" \o SubSeq(Head(format), 2, 2) \o "(MISSING)" \o Sprintf(Tail(format), <<>>)
        ELSE Verb(Head(format), Head(args)) \o Sprintf(Tail(format), Tail(args))
    ELSE Head(format) \o Sprintf(Tail(format), args)

\* fmt.Sprintln: the operands in default format, separated by spaces, and a
\* newline.
Sprintln(args) == Join([i \in DOMAIN args |-> Show(args[i])], " ") \o "\n"

-----------------------------------------------------------------------------
(* Functions under test *)

\* A function value: the identity funcName reports for it, and its body.
Fn(name, body) == [name |-> name, body |-> body]

\* funcName: the name of the code the function value points at.  Closures
\* built from the same code share it.
funcName(fn) == fn.name

\* A step of a body.  t is the context the step uses, counted outwards
\* through the enclosing functions' parameters: 1 is the function's own t.
Step(op, t, format, args, fns) ==
    [op |-> op, t |-> t, format |-> format, args |-> args, fns |-> fns]

FailNowStep(t) == Step("FailNow", t, <<>>, <<>>, <<>>)
FatalStep(t, args) == Step("Fatal", t, <<>>, args, <<>>)
FatalfStep(t, format, args) == Step("Fatalf", t, format, args, <<>>)
ErrorStep(t, args) == Step("Error", t, <<>>, args, <<>>)
ErrorfStep(t, format, args) == Step("Errorf", t, format, args, <<>>)
LogStep(t, args) == Step("Log", t, <<>>, args, <<>>)
LogfStep(t, format, args) == Step("Logf", t, format, args, <<>>)
HelperStep(t) == Step("Helper", t, <<>>, <<>>, <<>>)
\* A testing.TB method fakeT does not implement (Skip, Name, Cleanup, ...).
OtherStep(t) == Step("Other", t, <<>>, <<>>, <<>>)
\* panic(v) with a value that is not a failure; v is "nil" for panic(nil).
PanicStep(v) == Step("panic", 0, <<>>, <<Str(v)>>, <<>>)
\* The function blocks forever.
HangStep == Step("hang", 0, <<>>, <<>>, <<>>)
\* A harness function called on context t with the function literals fns.
CallStep(op, t, fns) == Step(op, t, <<>>, <<>>, fns)

HarnessOps == {"CaptureFatal", "ExpectFatal", "ExpectError", "ParallelFatal"}
FatalOps == {"FailNow", "Fatal", "Fatalf"}
RecordOps == {"Error", "Errorf"}
LogOps == {"Log", "Logf"}

BoomFormat == <<"boom ", "%d">>
ErrFormat == <<"e=", "%v">>

RefSteps(t) ==
    {FailNowStep(t), FatalStep(t, <<Str("x")>>), FatalStep(t, <<Str("y"), Str("z")>>),
     FatalfStep(t, BoomFormat, <<Num(5)>>),
     ErrorStep(t, <<Str("a")>>), ErrorStep(t, <<Str("b")>>),
     ErrorfStep(t, ErrFormat, <<Str("a")>>),
     LogStep(t, <<Str("l")>>), LogfStep(t, <<"%s">>, <<Str("m")>>),
     HelperStep(t), OtherStep(t)}

PlainSteps == {PanicStep("nil"), PanicStep("boom"), HangStep}

LeafSteps(ts) == UNION {RefSteps(t) : t \in ts} \cup PlainSteps

SeqsUpTo(S, n) == UNION {[1..k -> S] : k \in 0..n}

\* Functions that only use their own t.
FlatFns == {Fn("f", b) : b \in SeqsUpTo(LeafSteps({1}), MaxSteps)}

\* Function literals written inside another function under test: they see
\* their own t (1) and the enclosing function's t (2).
InnerFns == {Fn("g", b) : b \in {<<>>} \cup {<<s>> : s \in LeafSteps({1, 2})}}

\* The lists of function literals handed to a nested ParallelFatal.
InnerLists ==
    {<<>>,
     <<Fn("g", <<LogStep(1, <<Str("l")>>)>>)>>,
     <<Fn("g", <<FailNowStep(1)>>)>>,
     <<Fn("g", <<FailNowStep(1)>>), Fn("g", <<LogStep(1, <<Str("l")>>)>>)>>,
     <<Fn("g", <<ErrorStep(1, <<Str("a")>>)>>), Fn("h", <<FatalStep(2, <<Str("x")>>)>>)>>}

NestedCalls ==
    {CallStep(op, 1, <<g>>) : op \in HarnessOps \ {"ParallelFatal"}, g \in InnerFns}
    \cup {CallStep("ParallelFatal", 1, gs) : gs \in InnerLists}

\* Functions that make one nested harness call and then at most one more step.
NestedFns ==
    {Fn("f", <<c>> \o tail) :
        c \in NestedCalls, tail \in {<<>>} \cup {<<s>> : s \in LeafSteps({1})}}

\* The functions handed to ParallelFatal; some share an identity.
UnitFns ==
    {Fn("f", <<FailNowStep(1)>>),
     Fn("f", <<LogStep(1, <<Str("l")>>), FatalStep(1, <<Str("x")>>)>>),
     Fn("g", <<FatalfStep(1, BoomFormat, <<Num(5)>>)>>),
     Fn("g", <<ErrorStep(1, <<Str("a")>>)>>),
     Fn("h", <<PanicStep("nil")>>),
     Fn("g", <<HangStep>>)}

Inputs ==
    {[op |-> op, fns |-> <<fn>>] :
        op \in HarnessOps \ {"ParallelFatal"}, fn \in FlatFns \cup NestedFns}
    \cup {[op |-> "ParallelFatal", fns |-> fns] : fns \in SeqsUpTo(UnitFns, MaxFns)}

-----------------------------------------------------------------------------
(* Threads, frames, panics *)

\* The real testing.TB.  A double is named <<tid, n>>: the n-th fakeT goroutine
\* tid constructed.
Real == <<0, 0>>

NoPanic == [k |-> "none", v |-> "", from |-> Real]
\* panic(failure(msg)); from is history: the double whose method raised it.
failure(msg, d) == [k |-> "failure", v |-> msg, from |-> d]
OtherPanic(v) == [k |-> "other", v |-> v, from |-> Real]
\* panic(nil) as a toolchain without runtime.PanicNilError delivers it.
NilPanic == [k |-> "nil", v |-> "", from |-> Real]
RuntimePanic(v) == [k |-> "runtime", v |-> v, from |-> Real]

Void == [k |-> "void", v |-> ""]
Absent == [k |-> "absent", v |-> ""]
Present(msg) == [k |-> "present", v |-> msg]

Frame(k, t, fns, env, pc, i, obj) ==
    [k |-> k, t |-> t, fns |-> fns, env |-> env, pc |-> pc, i |-> i, obj |-> obj]

Thread(stack) == [stack |-> stack, pan |-> NoPanic, rv |-> Void, exited |-> FALSE]

Main == 1

Top(tid) == threads[tid].stack[Len(threads[tid].stack)]

Live(tid) ==
    /\ crashed = NoPanic
    /\ tid \in DOMAIN threads
    /\ threads[tid].stack # <<>>
    /\ ~threads[tid].exited

\* The thread runs its top frame: nothing is unwinding.
Runs(tid, k, pc) ==
    /\ Live(tid)
    /\ threads[tid].pan = NoPanic
    /\ Top(tid).k = k
    /\ Top(tid).pc = pc

Pop(stack) == SubSeq(stack, 1, Len(stack) - 1)
SetTop(stack, fr) == [stack EXCEPT ![Len(stack)] = fr]

\* fakeT{realT: t}, with its history: who made it, the calls it received, how
\* far the function it was handed to got and how that invocation ended.
\* (ran: the last step its function began; fatalAt: the step its function was
\* in when the double's first fatal method was called, 0 if none was.)
fakeT(t, maker) ==
    [realT |-> t, errs |-> <<>>, maker |-> maker, calls |-> <<>>, ran |-> 0,
     fatalAt |-> 0, result |-> [k |-> "running", v |-> ""]]

Call(op, format, args) == [op |-> op, format |-> format, args |-> args]

\* The name of the next double goroutine tid constructs, and the doubles with
\* it added.
NewDouble(tid) == <<tid, Cardinality({d \in DOMAIN doubles : d[1] = tid}) + 1>>
Made(ds, d, ft) == [x \in DOMAIN ds \cup {d} |-> IF x = d THEN ft ELSE ds[x]]

\* t.Helper() as the harness functions call it: fakeT.Helper does nothing, the
\* real context receives the call.
THelper(t) == IF t = Real THEN Append(ctxCalls, Call("Helper", <<>>, <<>>)) ELSE ctxCalls

Init ==
    /\ input \in Inputs
    /\ threads = <<Thread(<<Frame(input.op, Real, input.fns, <<>>, "entry", 0, 0)>>)>>
    /\ doubles = <<>>
    /\ pfs = <<>>
    /\ ctxCalls = <<>>
    /\ crashed = NoPanic
    /\ catches = {}

-----------------------------------------------------------------------------
(* The function under test runs one step *)

AtStep(tid, ops) ==
    /\ Runs(tid, "fn", "run")
    /\ Top(tid).i <= Len(Top(tid).fns[1].body)
    /\ Top(tid).fns[1].body[Top(tid).i].op \in ops

Cur(tid) == Top(tid).fns[1].body[Top(tid).i]
Own(tid) == Top(tid).env[1]
Target(tid) == Top(tid).env[Cur(tid).t]

\* History: the function handed double own has begun its step i.
Began(ds, own, i) == [ds EXCEPT ![own].ran = i]
Received(ds, d, c) ==
    [ds EXCEPT ![d].calls = Append(@, c),
               ![d].fatalAt = IF c.op \in FatalOps /\ @ = 0 THEN ds[d].ran ELSE @]

Advanced(tid) ==
    [threads EXCEPT ![tid].stack = SetTop(@, [Top(tid) EXCEPT !.i = @ + 1])]

\* Mutant: fatal does not panic and the function goes on.
fatalReturns(tid, d, msg) == Advanced(tid)

\* fakeT.fatal: panic(failure(msg)).
fatal(tid, d, msg) == [threads EXCEPT ![tid].pan = failure(msg, d)]

FailNow(tid) ==
    /\ AtStep(tid, {"FailNow"})
    /\ threads' = fatal(tid, Target(tid), "")
    /\ doubles' = Received(Began(doubles, Own(tid), Top(tid).i), Target(tid),
                           Call("FailNow", <<>>, <<>>))
    /\ UNCHANGED <<input, pfs, ctxCalls, crashed, catches>>

Fatal(tid) ==
    /\ AtStep(tid, {"Fatal"})
    /\ threads' = fatal(tid, Target(tid), Sprintln(Cur(tid).args))
    /\ doubles' = Received(Began(doubles, Own(tid), Top(tid).i), Target(tid),
                           Call("Fatal", <<>>, Cur(tid).args))
    /\ UNCHANGED <<input, pfs, ctxCalls, crashed, catches>>

Fatalf(tid) ==
    /\ AtStep(tid, {"Fatalf"})
    /\ threads' = fatal(tid, Target(tid), Sprintf(Cur(tid).format, Cur(tid).args))
    /\ doubles' = Received(Began(doubles, Own(tid), Top(tid).i), Target(tid),
                           Call("Fatalf", Cur(tid).format, Cur(tid).args))
    /\ UNCHANGED <<input, pfs, ctxCalls, crashed, catches>>

\* Mutant: the new string is put in front of the recorded ones.
RecordedInFront(ds, d, msg) == [ds EXCEPT ![d].errs = <<msg>> \o @]

\* Mutant: Error and Errorf record nothing.
RecordedNothing(ds, d, msg) == ds

\* Mutant: the strings are kept in one list all doubles share.
RecordedShared(ds, d, msg) == [x \in DOMAIN ds |-> [ds[x] EXCEPT !.errs = Append(@, msg)]]

\* ft.errs = append(ft.errs, msg)
Recorded(ds, d, msg) == [ds EXCEPT ![d].errs = Append(@, msg)]

Errorf(tid) ==
    /\ AtStep(tid, {"Errorf"})
    /\ threads' = Advanced(tid)
    /\ doubles' = Recorded(Received(Began(doubles, Own(tid), Top(tid).i), Target(tid),
                                    Call("Errorf", Cur(tid).format, Cur(tid).args)),
                           Target(tid), Sprintf(Cur(tid).format, Cur(tid).args))
    /\ UNCHANGED <<input, pfs, ctxCalls, crashed, catches>>

Error(tid) ==
    /\ AtStep(tid, {"Error"})
    /\ threads' = Advanced(tid)
    /\ doubles' = Recorded(Received(Began(doubles, Own(tid), Top(tid).i), Target(tid),
                                    Call("Error", <<>>, Cur(tid).args)),
                           Target(tid), Sprintln(Cur(tid).args))
    /\ UNCHANGED <<input, pfs, ctxCalls, crashed, catches>>

RECURSIVE Delegates(_, _)
\* The doubles a Log or Logf call on d passes through: d, the double d wraps
\* if realT is one, and so on down to the real context.
Delegates(ds, d) == IF d = Real THEN {} ELSE {d} \cup Delegates(ds, ds[d].realT)

\* ft.realT.Log(args...) / ft.realT.Logf(format, args...): every double on the
\* way receives the call and the real context at the end of the chain too.
Delegated(ds, d, c) ==
    [x \in DOMAIN ds |->
        IF x \in Delegates(ds, d) THEN [ds[x] EXCEPT !.calls = Append(@, c)] ELSE ds[x]]

Log(tid) ==
    /\ AtStep(tid, {"Log"})
    /\ threads' = Advanced(tid)
    /\ doubles' = Delegated(Began(doubles, Own(tid), Top(tid).i), Target(tid),
                            Call("Log", <<>>, Cur(tid).args))
    /\ ctxCalls' = Append(ctxCalls, Call("Log", <<>>, Cur(tid).args))
    /\ UNCHANGED <<input, pfs, crashed, catches>>

Logf(tid) ==
    /\ AtStep(tid, {"Logf"})
    /\ threads' = Advanced(tid)
    /\ doubles' = Delegated(Began(doubles, Own(tid), Top(tid).i), Target(tid),
                            Call("Logf", Cur(tid).format, Cur(tid).args))
    /\ ctxCalls' = Append(ctxCalls, Call("Logf", Cur(tid).format, Cur(tid).args))
    /\ UNCHANGED <<input, pfs, crashed, catches>>

Helper(tid) ==
    /\ AtStep(tid, {"Helper"})
    /\ threads' = Advanced(tid)
    /\ doubles' = Received(Began(doubles, Own(tid), Top(tid).i), Target(tid),
                           Call("Helper", <<>>, <<>>))
    /\ UNCHANGED <<input, pfs, ctxCalls, crashed, catches>>

\* Mutant: the method is implemented and does nothing.
SilentNoOp(tid) == Advanced(tid)

\* A call through the embedded testing.TB of a fakeT, which is nil.
EmbeddedCall(tid) == [threads EXCEPT ![tid].pan = RuntimePanic("nil pointer dereference")]

\* A method fakeT inherits from its embedded testing.TB, which is nil: the
\* call dereferences the nil interface.
Unimplemented(tid) ==
    /\ AtStep(tid, {"Other"})
    /\ threads' = EmbeddedCall(tid)
    /\ doubles' = Received(Began(doubles, Own(tid), Top(tid).i), Target(tid),
                           Call("Other", <<>>, <<>>))
    /\ UNCHANGED <<input, pfs, ctxCalls, crashed, catches>>

\* What the runtime makes of panic(v): panic(nil) is a *runtime.PanicNilError
\* under go1.21 semantics and a nil panic value under the older semantics
\* (GODEBUG panicnil=1); which one depends on the build.
Panics(v) ==
    IF v = "nil" THEN {NilPanic, RuntimePanic("PanicNilError")} ELSE {OtherPanic(v)}

FnPanic(tid) ==
    /\ AtStep(tid, {"panic"})
    /\ \E pan \in Panics(Cur(tid).args[1].v) :
          threads' = [threads EXCEPT ![tid].pan = pan]
    /\ doubles' = Began(doubles, Own(tid), Top(tid).i)
    /\ UNCHANGED <<input, pfs, ctxCalls, crashed, catches>>

\* The function calls a harness function with a function literal; the literal
\* closes over the contexts in scope.
FnCall(tid) ==
    /\ AtStep(tid, HarnessOps)
    /\ threads' = [threads EXCEPT ![tid].stack =
          Append(SetTop(@, [Top(tid) EXCEPT !.i = @ + 1]),
                 Frame(Cur(tid).op, Target(tid), Cur(tid).fns, Top(tid).env, "entry", 0, 0))]
    /\ doubles' = Began(doubles, Own(tid), Top(tid).i)
    /\ UNCHANGED <<input, pfs, ctxCalls, crashed, catches>>

\* The function returns.
FnReturn(tid) ==
    /\ Runs(tid, "fn", "run")
    /\ Top(tid).i > Len(Top(tid).fns[1].body)
    /\ threads' = [threads EXCEPT ![tid].stack = Pop(@), ![tid].rv = Void]
    /\ UNCHANGED <<input, doubles, pfs, ctxCalls, crashed, catches>>

-----------------------------------------------------------------------------
(* CaptureFatal *)

\* t.Helper(); fn(&fakeT{realT: t}) under the deferred recover.
CaptureFatalCall(tid) ==
    /\ Runs(tid, "CaptureFatal", "entry")
    /\ ctxCalls' = THelper(Top(tid).t)
    /\ doubles' = Made(doubles, NewDouble(tid), fakeT(Top(tid).t, "CaptureFatal"))
    /\ threads' = [threads EXCEPT ![tid].stack =
          Append(SetTop(@, [Top(tid) EXCEPT !.pc = "running", !.obj = NewDouble(tid)]),
                 Frame("fn", Real, Top(tid).fns, <<NewDouble(tid)>> \o Top(tid).env,
                       "run", 1, 0))]
    /\ UNCHANGED <<input, pfs, crashed, catches>>

\* Mutant: case failure sets the message and falls into the re-raise.
CaptureFatalDeferFallsThrough(r) ==
    CASE r.k = "failure" -> [rv |-> Present(r.v), pan |-> r]
      [] r.k \in {"none", "nil"} -> [rv |-> Absent, pan |-> NoPanic]
      [] OTHER -> [rv |-> Void, pan |-> r]

\* Mutant: a failure with the empty message counts as no failure.
CaptureFatalDeferEmptyIsNil(r) ==
    CASE r.k = "failure" /\ r.v # "" -> [rv |-> Present(r.v), pan |-> NoPanic]
      [] r.k \in {"none", "nil"} \/ (r.k = "failure" /\ r.v = "") ->
            [rv |-> Absent, pan |-> NoPanic]
      [] OTHER -> [rv |-> Void, pan |-> r]

\* The switch of the deferred function on r = recover(): the result CaptureFatal
\* returns and the panic it raises again.  recover() is nil when nothing
\* panicked and when the panic value is nil.
CaptureFatalDefer(r) ==
    CASE r.k = "failure" -> [rv |-> Present(r.v), pan |-> NoPanic]
      [] r.k \in {"none", "nil"} -> [rv |-> Absent, pan |-> NoPanic]
      [] OTHER -> [rv |-> Void, pan |-> r]

\* How a harness invocation ended, kept with the double it made.
Ended(ds, d, rv, pan) ==
    [ds EXCEPT ![d].result =
        IF pan # NoPanic THEN [k |-> "propagated", v |-> pan.v] ELSE rv]

\* fn has returned or is panicking: the deferred function runs and CaptureFatal
\* returns or goes on panicking.
CaptureFatalDeferred(tid) ==
    /\ Live(tid)
    /\ Top(tid).k = "CaptureFatal"
    /\ Top(tid).pc = "running"
    /\ LET r == threads[tid].pan
           out == CaptureFatalDefer(r)
       IN /\ threads' = [threads EXCEPT ![tid].stack = Pop(@),
                                        ![tid].pan = out.pan,
                                        ![tid].rv = out.rv]
          /\ doubles' = Ended(doubles, Top(tid).obj, out.rv, out.pan)
          /\ catches' = IF r # NoPanic /\ out.pan = NoPanic
                        THEN catches \cup {[barrier |-> Top(tid).obj, from |-> r.from,
                                            k |-> r.k]}
                        ELSE catches
    /\ UNCHANGED <<input, pfs, ctxCalls, crashed>>

\* A panic passes a frame that defers nothing.
Unwind(tid) ==
    /\ Live(tid)
    /\ threads[tid].pan # NoPanic
    /\ Top(tid).k \in {"fn", "ExpectFatal", "ExpectError", "ParallelFatal"}
    /\ threads' = [threads EXCEPT ![tid].stack = Pop(@)]
    /\ doubles' = IF Top(tid).k = "ExpectError"
                  THEN Ended(doubles, Top(tid).obj, Void, threads[tid].pan)
                  ELSE doubles
    /\ UNCHANGED <<input, pfs, ctxCalls, crashed, catches>>

-----------------------------------------------------------------------------
(* t.Fatalf as the harness functions call it on their context t *)

\* On the real context the failure is reported and the goroutine ends
\* (testing.T.Fatalf is Logf and FailNow); on a double it is fakeT.Fatalf.
TFatalfThreads(tid, t, format, args) ==
    IF t = Real
    THEN [threads EXCEPT ![tid].stack = <<>>, ![tid].exited = TRUE]
    ELSE fatal(tid, t, Sprintf(format, args))

TFatalfDoubles(t, format, args) ==
    IF t = Real THEN doubles ELSE Received(doubles, t, Call("Fatalf", format, args))

\* Mutant: the failure is reported on the real context whatever t is.
TFatalfCtxAlways(t, format, args) == Append(ctxCalls, Call("Fatalf", format, args))

TFatalfCtx(t, format, args) ==
    IF t = Real THEN Append(ctxCalls, Call("Fatalf", format, args)) ELSE ctxCalls

-----------------------------------------------------------------------------
(* ExpectFatal *)

ExpectFatalCall(tid) ==
    /\ Runs(tid, "ExpectFatal", "entry")
    /\ ctxCalls' = THelper(Top(tid).t)
    /\ threads' = [threads EXCEPT ![tid].stack =
          Append(SetTop(@, [Top(tid) EXCEPT !.pc = "called"]),
                 Frame("CaptureFatal", Top(tid).t, Top(tid).fns, Top(tid).env,
                       "entry", 0, 0))]
    /\ UNCHANGED <<input, doubles, pfs, crashed, catches>>

\* Mutant: the test of the captured message is inverted (msg == nil).
ExpectFatalTestInverted(msg) == msg.k # "present"

\* if msg := CaptureFatal(t, fn); msg != nil
ExpectFatalTest(msg) == msg.k = "present"

ExpectFatalReturn(tid) ==
    /\ Runs(tid, "ExpectFatal", "called")
    /\ ExpectFatalTest(threads[tid].rv)
    /\ threads' = [threads EXCEPT ![tid].stack = Pop(@),
                                  ![tid].rv = [k |-> "string", v |-> threads[tid].rv.v]]
    /\ UNCHANGED <<input, doubles, pfs, ctxCalls, crashed, catches>>

ExpectFatalFormat == <<"%s", " did not fail fatally as expected">>

ExpectFatalFail(tid) ==
    /\ Runs(tid, "ExpectFatal", "called")
    /\ ~ExpectFatalTest(threads[tid].rv)
    /\ LET t == Top(tid).t
           args == <<Str(funcName(Top(tid).fns[1]))>>
       IN /\ threads' = TFatalfThreads(tid, t, ExpectFatalFormat, args)
          /\ doubles' = TFatalfDoubles(t, ExpectFatalFormat, args)
          /\ ctxCalls' = TFatalfCtx(t, ExpectFatalFormat, args)
    /\ UNCHANGED <<input, pfs, crashed, catches>>

-----------------------------------------------------------------------------
(* ExpectError *)

\* t.Helper(); ft := &fakeT{realT: t}; fn(ft) with no deferred recover.
ExpectErrorCall(tid) ==
    /\ Runs(tid, "ExpectError", "entry")
    /\ ctxCalls' = THelper(Top(tid).t)
    /\ doubles' = Made(doubles, NewDouble(tid), fakeT(Top(tid).t, "ExpectError"))
    /\ threads' = [threads EXCEPT ![tid].stack =
          Append(SetTop(@, [Top(tid) EXCEPT !.pc = "running", !.obj = NewDouble(tid)]),
                 Frame("fn", Real, Top(tid).fns, <<NewDouble(tid)>> \o Top(tid).env,
                       "run", 1, 0))]
    /\ UNCHANGED <<input, pfs, crashed, catches>>

\* if ft.errs == nil: a slice that was appended to is never nil.
ExpectErrorTest(errs) == errs = <<>>

ExpectErrorReturn(tid) ==
    /\ Runs(tid, "ExpectError", "running")
    /\ ~ExpectErrorTest(doubles[Top(tid).obj].errs)
    /\ LET rv == [k |-> "strings", v |-> doubles[Top(tid).obj].errs]
       IN /\ threads' = [threads EXCEPT ![tid].stack = Pop(@), ![tid].rv = rv]
          /\ doubles' = Ended(doubles, Top(tid).obj, rv, NoPanic)
    /\ UNCHANGED <<input, pfs, ctxCalls, crashed, catches>>

ExpectErrorFormat == <<"%s", " did not raise an error as was expected">>

ExpectErrorFail(tid) ==
    /\ Runs(tid, "ExpectError", "running")
    /\ ExpectErrorTest(doubles[Top(tid).obj].errs)
    /\ LET t == Top(tid).t
           args == <<Str(funcName(Top(tid).fns[1]))>>
       IN /\ threads' = TFatalfThreads(tid, t, ExpectErrorFormat, args)
          /\ doubles' = Ended(TFatalfDoubles(t, ExpectErrorFormat, args), Top(tid).obj,
                              [k |-> "raised", v |-> ""], NoPanic)
          /\ ctxCalls' = TFatalfCtx(t, ExpectErrorFormat, args)
    /\ UNCHANGED <<input, pfs, crashed, catches>>

-----------------------------------------------------------------------------
(* ParallelFatal *)

NoErrs == [n \in {} |-> ""]

\* t.Helper(); fnErrs := make(map[string]error); var mu sync.Mutex;
\* var wg sync.WaitGroup
ParallelFatalCall(tid) ==
    /\ Runs(tid, "ParallelFatal", "entry")
    /\ ctxCalls' = THelper(Top(tid).t)
    /\ pfs' = Append(pfs, [fnErrs |-> NoErrs, mu |-> 0, wg |-> 0])
    /\ threads' = [threads EXCEPT ![tid].stack =
          SetTop(@, [Top(tid) EXCEPT !.pc = "range", !.i = 1, !.obj = Len(pfs) + 1])]
    /\ UNCHANGED <<input, doubles, crashed, catches>>

\* wg.Add(1)
Added(ps, p) == [ps EXCEPT ![p].wg = @ + 1]
\* Mutant: the goroutine never calls wg.Done().
DoneMissing(ps, p) == ps

\* wg.Done()
Done(ps, p) == [ps EXCEPT ![p].wg = @ - 1]

\* One round of the loop: wg.Add(1); go func(fn) {...}(fn)
Go(tid) ==
    /\ Runs(tid, "ParallelFatal", "range")
    /\ Top(tid).i <= Len(Top(tid).fns)
    /\ pfs' = Added(pfs, Top(tid).obj)
    /\ threads' = Append(
          [threads EXCEPT ![tid].stack = SetTop(@, [Top(tid) EXCEPT !.i = @ + 1])],
          Thread(<<Frame("go", Top(tid).t, <<Top(tid).fns[Top(tid).i]>>, Top(tid).env,
                         "entry", 0, Top(tid).obj)>>))
    /\ UNCHANGED <<input, doubles, ctxCalls, crashed, catches>>

\* Mutant: ParallelFatal does not wait for the goroutines.
WaitSkipped(p) == TRUE

\* wg.Wait() returns when the counter is zero.
WaitOver(p) == pfs[p].wg = 0

Wait(tid) ==
    /\ Runs(tid, "ParallelFatal", "range")
    /\ Top(tid).i > Len(Top(tid).fns)
    /\ WaitOver(Top(tid).obj)
    /\ threads' = [threads EXCEPT ![tid].stack = SetTop(@, [Top(tid) EXCEPT !.pc = "joined"])]
    /\ UNCHANGED <<input, doubles, pfs, ctxCalls, crashed, catches>>

ParallelFatalFormat == <<"ParallelFatal: ", "%d", " functions failed fatally: ", "%v">>

\* if len(fnErrs) > 0 { t.Fatalf(...) }
ParallelFatalReport(tid) ==
    /\ Runs(tid, "ParallelFatal", "joined")
    /\ Cardinality(DOMAIN pfs[Top(tid).obj].fnErrs) > 0
    /\ LET t == Top(tid).t
           fnErrs == pfs[Top(tid).obj].fnErrs
           args == <<Num(Cardinality(DOMAIN fnErrs)), Map(fnErrs)>>
       IN /\ threads' = TFatalfThreads(tid, t, ParallelFatalFormat, args)
          /\ doubles' = TFatalfDoubles(t, ParallelFatalFormat, args)
          /\ ctxCalls' = TFatalfCtx(t, ParallelFatalFormat, args)
    /\ UNCHANGED <<input, pfs, crashed, catches>>

ParallelFatalReturn(tid) ==
    /\ Runs(tid, "ParallelFatal", "joined")
    /\ Cardinality(DOMAIN pfs[Top(tid).obj].fnErrs) = 0
    /\ threads' = [threads EXCEPT ![tid].stack = Pop(@), ![tid].rv = Void]
    /\ UNCHANGED <<input, doubles, pfs, ctxCalls, crashed, catches>>

\* The goroutine calls CaptureFatal(t, fn).
GoCapture(tid) ==
    /\ Runs(tid, "go", "entry")
    /\ threads' = [threads EXCEPT ![tid].stack =
          Append(SetTop(@, [Top(tid) EXCEPT !.pc = "captured"]),
                 Frame("CaptureFatal", Top(tid).t, Top(tid).fns, Top(tid).env,
                       "entry", 0, 0))]
    /\ UNCHANGED <<input, doubles, pfs, ctxCalls, crashed, catches>>

\* Mutant: the goroutine records the functions that did not fail (errMsg == nil).
GoTestInverted(errMsg) == errMsg.k # "present"

\* if errMsg := CaptureFatal(t, fn); errMsg != nil
GoTest(errMsg) == errMsg.k = "present"

\* Mutant: mu.Lock() does not wait for the holder.
LockIgnored(p) == TRUE

\* mu.Lock() goes through when no goroutine holds mu.
Unlocked(p) == pfs[p].mu = 0

\* addErr: mu.Lock()
GoLock(tid) ==
    /\ Runs(tid, "go", "captured")
    /\ GoTest(threads[tid].rv)
    /\ Unlocked(Top(tid).obj)
    /\ pfs' = [pfs EXCEPT ![Top(tid).obj].mu = tid]
    /\ threads' = [threads EXCEPT ![tid].stack = SetTop(@, [Top(tid) EXCEPT !.pc = "locked"])]
    /\ UNCHANGED <<input, doubles, ctxCalls, crashed, catches>>

\* fnErrs[fn] = err
addErr(fnErrs, fn, err) ==
    [n \in DOMAIN fnErrs \cup {fn} |-> IF n = fn THEN err ELSE fnErrs[n]]

GoWrite(tid) ==
    /\ Runs(tid, "go", "locked")
    /\ pfs' = [pfs EXCEPT ![Top(tid).obj].fnErrs =
                  addErr(@, funcName(Top(tid).fns[1]), threads[tid].rv.v)]
    /\ threads' = [threads EXCEPT ![tid].stack = SetTop(@, [Top(tid) EXCEPT !.pc = "written"])]
    /\ UNCHANGED <<input, doubles, ctxCalls, crashed, catches>>

\* addErr returns: the deferred mu.Unlock()
GoUnlock(tid) ==
    /\ Runs(tid, "go", "written")
    /\ pfs' = [pfs EXCEPT ![Top(tid).obj].mu = 0]
    /\ threads' = [threads EXCEPT ![tid].stack = SetTop(@, [Top(tid) EXCEPT !.pc = "unlocked"])]
    /\ UNCHANGED <<input, doubles, ctxCalls, crashed, catches>>

\* The goroutine's function returns: the deferred wg.Done()
GoDone(tid) ==
    /\ \/ Runs(tid, "go", "unlocked")
       \/ Runs(tid, "go", "captured") /\ ~GoTest(threads[tid].rv)
    /\ pfs' = Done(pfs, Top(tid).obj)
    /\ threads' = [threads EXCEPT ![tid].stack = Pop(@), ![tid].rv = Void]
    /\ UNCHANGED <<input, doubles, ctxCalls, crashed, catches>>

\* A panic leaves the goroutine's function: the deferred wg.Done() runs first.
GoUnwind(tid) ==
    /\ Live(tid)
    /\ threads[tid].pan # NoPanic
    /\ Top(tid).k = "go"
    /\ pfs' = Done(pfs, Top(tid).obj)
    /\ threads' = [threads EXCEPT ![tid].stack = Pop(@)]
    /\ UNCHANGED <<input, doubles, ctxCalls, crashed, catches>>

\* A panic nothing recovered reaches the top of a goroutine started by
\* ParallelFatal: the runtime ends the process.
GoCrash(tid) ==
    /\ crashed = NoPanic
    /\ tid \in DOMAIN threads
    /\ tid # Main
    /\ threads[tid].stack = <<>>
    /\ threads[tid].pan # NoPanic
    /\ crashed' = threads[tid].pan
    /\ UNCHANGED <<input, threads, doubles, pfs, ctxCalls, catches>>

-----------------------------------------------------------------------------
(* Specification *)

\* Thread ids: the caller's and one per goroutine of the one ParallelFatal call
\* a run can hold.
Tids == 1..(MaxFns + 1)

Step1(tid) ==
    \/ FailNow(tid) \/ Fatal(tid) \/ Fatalf(tid)
    \/ Errorf(tid) \/ Error(tid)
    \/ Log(tid) \/ Logf(tid) \/ Helper(tid)
    \/ Unimplemented(tid) \/ FnPanic(tid)
    \/ FnCall(tid) \/ FnReturn(tid)
    \/ CaptureFatalCall(tid) \/ CaptureFatalDeferred(tid) \/ Unwind(tid)
    \/ ExpectFatalCall(tid) \/ ExpectFatalReturn(tid) \/ ExpectFatalFail(tid)
    \/ ExpectErrorCall(tid) \/ ExpectErrorReturn(tid) \/ ExpectErrorFail(tid)
    \/ ParallelFatalCall(tid) \/ Go(tid) \/ Wait(tid)
    \/ ParallelFatalReport(tid) \/ ParallelFatalReturn(tid)
    \/ GoCapture(tid) \/ GoLock(tid) \/ GoWrite(tid) \/ GoUnlock(tid) \/ GoDone(tid)
    \/ GoUnwind(tid) \/ GoCrash(tid)

Next == \E tid \in Tids : Step1(tid)

Spec == Init /\ [][Next]_vars

\* While some goroutine can run, the Go scheduler runs one: the program does
\* not stop with a runnable goroutine.  No step of a goroutine repeats, so this
\* is as strong as fairness for each goroutine taken alone.
FairSpec == Spec /\ WF_vars(Next)

-----------------------------------------------------------------------------
(* What a test observes *)

\* The call the test made is over: it returned, it panicked into the test, or
\* it failed the test on the real context.
MainDone == threads[Main].stack = <<>>
Returned == MainDone /\ threads[Main].pan = NoPanic /\ ~threads[Main].exited
Propagated == MainDone /\ threads[Main].pan # NoPanic
Raised == threads[Main].exited

CtxFatals == SelectSeq(ctxCalls, LAMBDA c : c.op = "Fatalf")
CtxFailures == SelectSeq(ctxCalls, LAMBDA c : c.op \in {"Fatalf", "Fatal", "Error", "Errorf"})

\* The message a fatal or error call formats.
MsgOf(c) ==
    CASE c.op = "FailNow" -> ""
      [] c.op \in {"Fatal", "Error"} -> Sprintln(c.args)
      [] c.op \in {"Fatalf", "Errorf"} -> Sprintf(c.format, c.args)

FatalCalls(d) == SelectSeq(doubles[d].calls, LAMBDA c : c.op \in FatalOps)

\* Reading a flat function that only uses its own t: the first step that does
\* not let it continue, and how the function ends.
SoftOps == RecordOps \cup LogOps \cup {"Helper"}
IsFlat(fn) == \A i \in DOMAIN fn.body : fn.body[i].op \notin HarnessOps /\ fn.body[i].t <= 1
Stops(fn) == {i \in DOMAIN fn.body : fn.body[i].op \notin SoftOps}
FirstStop(fn) == CHOOSE i \in Stops(fn) : \A j \in Stops(fn) : i <= j
Verdict(fn) ==
    IF Stops(fn) = {} THEN "returns"
    ELSE LET op == fn.body[FirstStop(fn)].op
         IN IF op \in FatalOps THEN "fatal" ELSE IF op = "hang" THEN "hangs" ELSE "panics"

\* The double the first CaptureFatal or ExpectError of goroutine tid made.
First(tid) == <<tid, 1>>

-----------------------------------------------------------------------------
(* C1 *)

\* C1: CaptureFatal returns present if and only if a fatal method (FailNow,
\* Fatal, Fatalf) was called on the double it made for fn; the message it
\* returns is the formatted message of the first such call; and once a fatal
\* method of the double was called, the function the double was made for runs
\* no further step.
C1_CaptureFatalContract ==
    \A d \in DOMAIN doubles :
        doubles[d].maker = "CaptureFatal" =>
            /\ doubles[d].result.k \in {"present", "absent"} =>
                  /\ (doubles[d].result.k = "present") <=> (FatalCalls(d) # <<>>)
                  /\ doubles[d].result.k = "present" =>
                        doubles[d].result.v = MsgOf(FatalCalls(d)[1])
            /\ doubles[d].fatalAt > 0 => doubles[d].ran = doubles[d].fatalAt

-----------------------------------------------------------------------------
(* C2 *)

\* C2: ExpectFatal called on the real context reports a fatal failure there if
\* and only if its CaptureFatal returned absent, and then with the message that
\* names fn; when CaptureFatal returned present, ExpectFatal returns exactly
\* the captured message and the real context receives no Fatal, Fatalf or
\* Error call.
C2_ExpectFatalIffAbsent ==
    input.op = "ExpectFatal" =>
        LET d == First(Main)
            captured == d \in DOMAIN doubles /\ doubles[d].result.k \in {"present", "absent"}
        IN /\ Raised => captured /\ doubles[d].result.k = "absent"
           /\ (MainDone /\ captured /\ doubles[d].result.k = "absent") => Raised
           /\ Raised =>
                 CtxFailures = <<Call("Fatalf", ExpectFatalFormat,
                                      <<Str(funcName(input.fns[1]))>>)>>
           /\ ~Raised => CtxFailures = <<>>
           /\ (MainDone /\ captured /\ doubles[d].result.k = "present") =>
                 /\ Returned
                 /\ threads[Main].rv = [k |-> "string", v |-> doubles[d].result.v]

\* ExpectFatal has returned the message "boom 5" of a Fatalf("boom %d", 5).
C2_Witness ==
    /\ input.op = "ExpectFatal"
    /\ Returned
    /\ threads[Main].rv = [k |-> "string", v |-> "boom 5"]
    /\ doubles[First(Main)].result = Present("boom 5")

-----------------------------------------------------------------------------
(* C3 *)

\* The strings the Error and Errorf steps of a body format, in the order of
\* the steps.
ErrorsOf(fn) ==
    LET recs == SelectSeq(fn.body, LAMBDA st : st.op \in RecordOps)
    IN [i \in DOMAIN recs |-> MsgOf(recs[i])]

\* C3: for a function that only calls Error, Errorf (and Log, Logf, Helper) on
\* its double, ExpectError on the real context returns the formatted strings of
\* the Error and Errorf calls in call order, duplicates kept; it reports a
\* fatal failure on the real context if and only if there was no such call.
C3_ExpectErrorOrder ==
    (input.op = "ExpectError" /\ IsFlat(input.fns[1]) /\ Stops(input.fns[1]) = {}) =>
        LET exp == ErrorsOf(input.fns[1])
        IN /\ MainDone =>
                 IF exp = <<>> THEN Raised
                 ELSE Returned /\ threads[Main].rv = [k |-> "strings", v |-> exp]
           /\ Raised => exp = <<>>
           /\ CtxFailures =
                 IF Raised
                 THEN <<Call("Fatalf", ExpectErrorFormat, <<Str(funcName(input.fns[1]))>>)>>
                 ELSE <<>>

\* ExpectError has returned the strings of Error("a") then Error("b").
C3_Witness ==
    /\ input.op = "ExpectError"
    /\ input.fns[1].body = <<ErrorStep(1, <<Str("a")>>), ErrorStep(1, <<Str("b")>>)>>
    /\ Returned
    /\ threads[Main].rv = [k |-> "strings", v |-> <<"a\n", "b\n">>]

-----------------------------------------------------------------------------
(* C4 *)

\* The functions of a list that fail fatally when CaptureFatal runs them alone.
Failing(fns) == {i \in DOMAIN fns : Verdict(fns[i]) = "fatal"}

\* The identities the failure ParallelFatal reported on the real context lists.
Reported == IF CtxFatals = <<>> THEN {} ELSE DOMAIN CtxFatals[1].args[2].v

\* C4: ParallelFatal on the real context reports at most one fatal failure, in
\* every interleaving; it reports one exactly when some function of the list
\* fails fatally (none for the empty list); the identities it reports are
\* exactly those of the functions that fail fatally when run alone, so none of
\* a function that returned normally.
C4_ParallelFatalReportsFailing ==
    input.op = "ParallelFatal" =>
        LET failing == {funcName(input.fns[i]) : i \in Failing(input.fns)}
        IN /\ Len(CtxFatals) <= 1
           /\ CtxFailures = CtxFatals
           /\ CtxFatals # <<>> => Raised /\ failing # {} /\ Reported = failing
           /\ MainDone => (Raised <=> failing # {})
           /\ Raised => CtxFatals # <<>>

\* f1 calls FailNow, f2 records an error and returns: one failure, naming f1.
C4_Witness ==
    /\ input.op = "ParallelFatal"
    /\ input.fns = <<Fn("f", <<FailNowStep(1)>>), Fn("g", <<ErrorStep(1, <<Str("a")>>)>>)>>
    /\ Raised
    /\ Len(CtxFatals) = 1
    /\ Reported = {"f"}

-----------------------------------------------------------------------------
(* C5 *)

\* The functions of the ParallelFatal call of this run, made by the test or by
\* the function under test.
PFFns ==
    IF input.op = "ParallelFatal" THEN input.fns
    ELSE IF input.fns[1].body # <<>> /\ input.fns[1].body[1].op = "ParallelFatal"
         THEN input.fns[1].body[1].fns
         ELSE <<>>

\* ParallelFatal is past wg.Wait(): it is about to report or return, or is over.
PFPast ==
    /\ pfs # <<>>
    /\ \A j \in DOMAIN threads[Main].stack :
          threads[Main].stack[j].k = "ParallelFatal" => threads[Main].stack[j].pc = "joined"

Units == DOMAIN threads \ {Main}

\* C5: ParallelFatal reports or returns only after it launched a goroutine for
\* every function and every one of them has ended, also when some of them
\* failed fatally early.
C5_ReportsAfterJoin ==
    (PFPast \/ (input.op = "ParallelFatal" /\ (MainDone \/ CtxFatals # <<>>))) =>
        /\ Len(threads) = 1 + Len(PFFns)
        /\ \A tid \in Units : threads[tid].stack = <<>>

\* Both goroutines have ended, the first one's function failed fatally, and
\* ParallelFatal stands after the join.
C5_Witness ==
    /\ input.op = "ParallelFatal"
    /\ input.fns = <<Fn("f", <<FailNowStep(1)>>), Fn("g", <<ErrorStep(1, <<Str("a")>>)>>)>>
    /\ threads[Main].stack # <<>>
    /\ Top(Main).pc = "joined"
    /\ DOMAIN pfs[1].fnErrs = {"f"}
    /\ \A tid \in Units : threads[tid].stack = <<>>

-----------------------------------------------------------------------------
(* C6 *)

\* The panic values a step that is no fatal call raises.
RaisedBy(st) ==
    IF st.op = "panic" THEN Panics(st.args[1].v)
    ELSE {RuntimePanic("nil pointer dereference")}

\* C6: no barrier stops a panic that is not a failure, and CaptureFatal, called
\* by the test with a function that panics with such a value, neither returns
\* nor changes the value: the panic reaches the test.
C6_ForeignPanicPropagates ==
    /\ \A c \in catches : c.k = "failure"
    /\ (/\ input.op = "CaptureFatal"
        /\ IsFlat(input.fns[1])
        /\ Verdict(input.fns[1]) = "panics"
        /\ MainDone)
       => /\ Propagated
          /\ threads[Main].pan \in RaisedBy(input.fns[1].body[FirstStop(input.fns[1])])

-----------------------------------------------------------------------------
(* C7 *)

\* C7: a failure raised by a double is recovered by the CaptureFatal invocation
\* that made the double and by no other: no barrier recovers another double's
\* failure, and no failure gets past every barrier.
C7_CaughtAtOwnBarrier ==
    /\ \A c \in catches : c.k = "failure" => c.barrier = c.from
    /\ ~(Propagated /\ threads[Main].pan.k = "failure")
    /\ crashed.k # "failure"

-----------------------------------------------------------------------------
(* C8 *)

\* C8: the count in ParallelFatal's failure message is the number of functions
\* of the list that failed fatally, and the message lists each of them under
\* its identity with its message, also when functions share an identity.
C8_CountAndListing ==
    (input.op = "ParallelFatal" /\ CtxFatals # <<>>) =>
        LET count == CtxFatals[1].args[1].v
            fnErrs == CtxFatals[1].args[2].v
        IN /\ count = Cardinality(Failing(input.fns))
           /\ \A i \in Failing(input.fns) :
                 /\ funcName(input.fns[i]) \in DOMAIN fnErrs
                 /\ fnErrs[funcName(input.fns[i])]
                       = MsgOf(input.fns[i].body[FirstStop(input.fns[i])])

-----------------------------------------------------------------------------
(* C9 *)

\* C9: when a function handed to ParallelFatal panics with a value that is no
\* failure, no barrier stops the panic, ParallelFatal does not return normally
\* and does not end by reporting, and the panic reaches the caller of
\* ParallelFatal instead of ending the process in the goroutine.
C9_ForeignPanicReachesCaller ==
    (/\ input.op = "ParallelFatal"
     /\ \E i \in DOMAIN input.fns : Verdict(input.fns[i]) = "panics")
    => /\ \A c \in catches : c.k = "failure"
       /\ ~Returned
       /\ crashed = NoPanic
       /\ MainDone => Propagated

-----------------------------------------------------------------------------
(* C10 *)

\* Every function of the list has returned from or failed fatally in its
\* goroutine's CaptureFatal.
AllFinished ==
    /\ input.op = "ParallelFatal"
    /\ \A i \in DOMAIN input.fns :
          /\ First(i + 1) \in DOMAIN doubles
          /\ doubles[First(i + 1)].result.k \in {"present", "absent"}

PFOver == input.op = "ParallelFatal" /\ MainDone

\* A goroutine's function stands at a step that blocks forever.
UnitHung ==
    /\ input.op = "ParallelFatal"
    /\ \E tid \in Units :
          /\ threads[tid].stack # <<>>
          /\ Top(tid).k = "fn"
          /\ Top(tid).i <= Len(Top(tid).fns[1].body)
          /\ Top(tid).fns[1].body[Top(tid).i].op = "hang"

\* C10: under fair scheduling, once every function has returned or failed
\* fatally, ParallelFatal returns or reports (the mutex and the join do not
\* deadlock); and while a function blocks forever (it never leaves that step),
\* ParallelFatal has not returned and has not reported.
C10_TerminatesIffAllEnd ==
    /\ AllFinished ~> PFOver
    /\ [](UnitHung => (~PFOver /\ CtxFatals = <<>>))

\* Two functions have ended and ParallelFatal is over.
C10_Witness ==
    /\ PFOver
    /\ AllFinished
    /\ Len(input.fns) = 2
    /\ \A tid \in Units : threads[tid].stack = <<>>

-----------------------------------------------------------------------------
(* C11 *)

\* The goroutine is inside addErr between mu.Lock() and the deferred
\* mu.Unlock().
InSection(tid) ==
    /\ threads[tid].stack # <<>>
    /\ threads[tid].stack[1].k = "go"
    /\ threads[tid].stack[1].pc \in {"locked", "written"}

\* C11: a goroutine inside addErr holds the one mutex of its ParallelFatal
\* call, so no two goroutines are inside at once; the mutex is held only by a
\* goroutine inside addErr, never by one that has left it or has ended; the
\* mapping changes only in a step of the goroutine that holds the mutex; and
\* once ParallelFatal is past wg.Wait(), where it reads the mapping, the
\* mapping changes no more.
C11_WritesUnderMutex ==
    /\ [](\A tid \in Units :
            InSection(tid) => pfs[threads[tid].stack[1].obj].mu = tid)
    /\ [](Cardinality({tid \in Units : InSection(tid)}) <= 1)
    /\ [](\A p \in DOMAIN pfs :
            pfs[p].mu # 0 => pfs[p].mu \in Units /\ InSection(pfs[p].mu))
    /\ [][\A p \in DOMAIN pfs :
            pfs'[p].fnErrs # pfs[p].fnErrs =>
                /\ pfs[p].mu # 0
                /\ pfs'[p].mu = pfs[p].mu
                /\ threads[pfs[p].mu].stack[1].pc = "locked"
                /\ threads'[pfs[p].mu].stack[1].pc = "written"]_vars
    /\ [][PFPast => pfs' = pfs]_vars

\* One goroutine has written its entry and still holds the mutex while another,
\* whose function failed fatally too, waits for it.
C11_Witness ==
    /\ input.op = "ParallelFatal"
    /\ Len(threads) = 3
    /\ InSection(2)
    /\ threads[2].stack[1].pc = "written"
    /\ pfs[1].mu = 2
    /\ DOMAIN pfs[1].fnErrs # {}
    /\ threads[3].stack # <<>>
    /\ threads[3].stack[1].pc = "captured"
    /\ Len(threads[3].stack) = 1
    /\ GoTest(threads[3].rv)

-----------------------------------------------------------------------------
(* C12 *)

\* The frames of the functions under test that are running: <<tid, j>> is
\* frame j of goroutine tid.
FnFrames ==
    {x \in UNION {{<<tid, j>> : j \in DOMAIN threads[tid].stack} : tid \in DOMAIN threads} :
        threads[x[1]].stack[x[2]].k = "fn"}

OwnOf(x) == threads[x[1]].stack[x[2]].env[1]

\* The strings the Error and Errorf calls a double received format, in order.
RecordedBy(d) ==
    LET recs == SelectSeq(doubles[d].calls, LAMBDA c : c.op \in RecordOps)
    IN [i \in DOMAIN recs |-> MsgOf(recs[i])]

IsPrefix(a, b) == Len(a) <= Len(b) /\ a = SubSeq(b, 1, Len(a))

\* C12: every invocation of a function under test is handed a double made for
\* it, with no recorded error: no two running functions own the same double, a
\* double is new and empty when it is made; the error list of a double holds
\* the strings of the Error and Errorf calls made on that double and nothing
\* else; and in ParallelFatal every goroutine has its own double, whose list
\* holds only strings its own function recorded.
C12_FreshDoublePerInvocation ==
    /\ [](\A x, y \in FnFrames : x # y => OwnOf(x) # OwnOf(y))
    /\ [][\A d \in DOMAIN doubles' :
            d \notin DOMAIN doubles =>
                doubles'[d].errs = <<>> /\ doubles'[d].calls = <<>>]_vars
    /\ [][\A tid \in DOMAIN threads :
            (/\ Len(threads'[tid].stack) = Len(threads[tid].stack) + 1
             /\ threads'[tid].stack[Len(threads'[tid].stack)].k = "fn")
            => /\ threads'[tid].stack[Len(threads'[tid].stack)].env[1] \notin DOMAIN doubles
               /\ threads'[tid].stack[Len(threads'[tid].stack)].env[1] \in DOMAIN doubles']_vars
    /\ [](\A d \in DOMAIN doubles : doubles[d].errs = RecordedBy(d))
    /\ [](input.op = "ParallelFatal" =>
            \A i \in DOMAIN input.fns :
                First(i + 1) \in DOMAIN doubles =>
                    /\ IsPrefix(doubles[First(i + 1)].errs, ErrorsOf(input.fns[i]))
                    /\ doubles[First(i + 1)].result.k = "absent" =>
                          doubles[First(i + 1)].errs = ErrorsOf(input.fns[i]))

\* Two goroutines ran the same function, which records one error: each double
\* holds that one string.
C12_Witness ==
    /\ input.op = "ParallelFatal"
    /\ input.fns = <<Fn("g", <<ErrorStep(1, <<Str("a")>>)>>),
                     Fn("g", <<ErrorStep(1, <<Str("a")>>)>>)>>
    /\ Returned
    /\ doubles[First(2)].errs = <<"a\n">>
    /\ doubles[First(3)].errs = <<"a\n">>

-----------------------------------------------------------------------------
(* C13 *)

\* The flat function ends by calling FailNow on its own double.
EndsInFailNow(fn) ==
    IsFlat(fn) /\ Verdict(fn) = "fatal" /\ fn.body[FirstStop(fn)].op = "FailNow"

\* C13: for a function that ends by calling FailNow, CaptureFatal returns
\* present with the empty message (not absent), ExpectFatal returns "" and the
\* real context receives no failure, and ParallelFatal counts the function as
\* failing: it reports, and the report lists the function's identity.
C13_FailNowIsPresentEmpty ==
    /\ (input.op = "CaptureFatal" /\ EndsInFailNow(input.fns[1])) =>
          /\ CtxFailures = <<>>
          /\ MainDone =>
                /\ Returned
                /\ threads[Main].rv = Present("")
                /\ threads[Main].rv # Absent
    /\ (input.op = "ExpectFatal" /\ EndsInFailNow(input.fns[1])) =>
          /\ CtxFailures = <<>>
          /\ ~Raised
          /\ MainDone => Returned /\ threads[Main].rv = [k |-> "string", v |-> ""]
    /\ input.op = "ParallelFatal" =>
          \A i \in DOMAIN input.fns :
              (EndsInFailNow(input.fns[i]) /\ MainDone) =>
                  /\ Raised
                  /\ funcName(input.fns[i]) \in Reported
                  /\ CtxFatals[1].args[1].v >= 1

\* ExpectFatal has returned "" for a function that logs and then calls FailNow.
C13_Witness ==
    /\ input.op = "ExpectFatal"
    /\ input.fns[1].body = <<LogStep(1, <<Str("l")>>), FailNowStep(1)>>
    /\ Returned
    /\ threads[Main].rv = [k |-> "string", v |-> ""]
    /\ doubles[First(Main)].result = Present("")

-----------------------------------------------------------------------------
(* C14 *)

\* Goroutine tid takes an Error or Errorf step.
Records(tid) ==
    /\ tid \in DOMAIN threads
    /\ AtStep(tid, RecordOps)
    /\ threads'[tid] # threads[tid]

\* Error and Errorf append the formatted string to the list of the double they
\* are called on, change no other double's list, raise nothing, let the
\* function go on with its next step and leave the real context alone.
RecordsOnly ==
    \A tid \in Tids :
        Records(tid) =>
            /\ doubles'[Target(tid)].errs = Append(doubles[Target(tid)].errs, MsgOf(Cur(tid)))
            /\ \A d \in DOMAIN doubles : d # Target(tid) => doubles'[d].errs = doubles[d].errs
            /\ threads'[tid].pan = NoPanic
            /\ threads'[tid].stack = SetTop(threads[tid].stack, [Top(tid) EXCEPT !.i = @ + 1])
            /\ ctxCalls' = ctxCalls

\* The test calls CaptureFatal, or ParallelFatal with functions none of which
\* fails fatally.
NoneFatal ==
    \/ input.op = "CaptureFatal"
    \/ input.op = "ParallelFatal" /\ Failing(input.fns) = {}

CtxOps == {ctxCalls[i].op : i \in DOMAIN ctxCalls}

\* C14 as stated: Error and Errorf only record; no Error or Errorf call ever
\* reaches the real context; and when no function fails fatally, the real
\* context receives no Error or Fatal call from ParallelFatal or CaptureFatal,
\* and the only calls it receives are the delegated Log and Logf calls.
C14_OnlyLogsReachCtx ==
    /\ [][RecordsOnly]_vars
    /\ [](CtxOps \cap RecordOps = {})
    /\ [](NoneFatal => CtxFailures = <<>> /\ CtxOps \subseteq LogOps)

\* C14 amended: as stated, except that the real context also receives the
\* Helper calls the harness functions make on it: one by ParallelFatal and one
\* by every CaptureFatal that has begun.
C14_OnlyLogsAndHelpersReachCtx ==
    /\ [][RecordsOnly]_vars
    /\ [](CtxOps \cap RecordOps = {})
    /\ [](NoneFatal =>
            /\ CtxFailures = <<>>
            /\ CtxOps \subseteq LogOps \cup {"Helper"}
            /\ Len(SelectSeq(ctxCalls, LAMBDA c : c.op = "Helper"))
                  = Cardinality({d \in DOMAIN doubles : doubles[d].realT = Real})
                    + (IF input.op = "ParallelFatal" /\ pfs # <<>> THEN 1 ELSE 0))

\* ParallelFatal has returned: one function recorded an error, the other was
\* stopped by a panic(nil) that CaptureFatal took for no panic; the real
\* context received three Helper calls and no failure.
C14_Witness ==
    /\ input.op = "ParallelFatal"
    /\ input.fns = <<Fn("g", <<ErrorStep(1, <<Str("a")>>)>>), Fn("h", <<PanicStep("nil")>>)>>
    /\ Returned
    /\ doubles[First(2)].errs = <<"a\n">>
    /\ CtxFailures = <<>>
    /\ ctxCalls = <<Call("Helper", <<>>, <<>>), Call("Helper", <<>>, <<>>),
                    Call("Helper", <<>>, <<>>)>>

-----------------------------------------------------------------------------
(* C15 *)

\* The steps of a flat function that come before its first step that stops it
\* (a fatal call, a panic, a block): the calls it issues and that return.
Issued(fn) ==
    IF Stops(fn) = {} THEN fn.body ELSE SubSeq(fn.body, 1, FirstStop(fn) - 1)

\* The Log and Logf calls among steps, as the real context receives them.
LogsOf(steps) ==
    LET logs == SelectSeq(steps, LAMBDA st : st.op \in LogOps)
    IN [i \in DOMAIN logs |-> Call(logs[i].op, logs[i].format, logs[i].args)]

CtxLogs == SelectSeq(ctxCalls, LAMBDA c : c.op \in LogOps)

\* C15: in one CaptureFatal or ExpectError invocation the real context has
\* received, at every moment, the first Log and Logf calls the function issues
\* before it is stopped, in the function's order, and the double has recorded
\* the first Error and Errorf strings, in the function's order; when the
\* invocation is over all of them have arrived, and nothing the function would
\* have issued after its fatal call (or panic) has.
C15_CallsInOrder ==
    (input.op \in {"CaptureFatal", "ExpectError"} /\ IsFlat(input.fns[1])) =>
        LET fn == input.fns[1]
            logs == LogsOf(Issued(fn))
            errs == ErrorsOf(Fn(fn.name, Issued(fn)))
            got == IF First(Main) \in DOMAIN doubles THEN doubles[First(Main)].errs ELSE <<>>
        IN /\ IsPrefix(CtxLogs, logs)
           /\ IsPrefix(got, errs)
           /\ MainDone => CtxLogs = logs /\ got = errs
           /\ (MainDone /\ input.op = "ExpectError" /\ Returned) =>
                 threads[Main].rv = [k |-> "strings", v |-> errs]

\* CaptureFatal is over for a function that calls Fatal before it logs: the
\* real context received no Log call.
C15_Witness ==
    /\ input.op = "CaptureFatal"
    /\ input.fns[1].body = <<FatalStep(1, <<Str("x")>>), LogStep(1, <<Str("l")>>)>>
    /\ Returned
    /\ threads[Main].rv = Present("x\n")
    /\ CtxLogs = <<>>

-----------------------------------------------------------------------------
(* C16 *)

RECURSIVE InOrder(_, _)
\* The mapping after the interleaving that runs the goroutines one after the
\* other in the order of the list: every function that fails fatally writes
\* its message under its identity.
InOrder(fns, fnErrs) ==
    IF fns = <<>> THEN fnErrs
    ELSE InOrder(Tail(fns),
                 IF Verdict(Head(fns)) = "fatal"
                 THEN addErr(fnErrs, funcName(Head(fns)),
                             MsgOf(Head(fns).body[FirstStop(Head(fns))]))
                 ELSE fnErrs)

\* C16: the mapping ParallelFatal reads after the join depends on the list of
\* functions only: whatever the interleaving, it is the mapping the in-order
\* interleaving leaves, also when two failing functions share an identity.
C16_AggregateDeterministic ==
    (input.op = "ParallelFatal" /\ PFPast) =>
        pfs[1].fnErrs = InOrder(input.fns, NoErrs)

-----------------------------------------------------------------------------
(* C17 *)

\* Goroutine tid takes a step that calls one of the methods ops of a double.
Calls(tid, ops) ==
    /\ tid \in DOMAIN threads
    /\ AtStep(tid, ops)
    /\ threads'[tid] # threads[tid]

\* The effects a method of the double can have: recorded errors, calls on the
\* real context, a panic.
Effects == <<[d \in DOMAIN doubles |-> doubles[d].errs], ctxCalls>>
EffectsAfter == <<[d \in DOMAIN doubles |-> doubles'[d].errs], ctxCalls'>>

\* C17: a call of a method of the double other than FailNow, Fatal, Fatalf,
\* Error, Errorf, Log, Logf and Helper panics with a value that is no failure;
\* no barrier stops that panic, so a CaptureFatal called by the test neither
\* returns present nor absent but lets the same panic reach the test; Helper
\* returns and has no effect, and it is the only method of the double that
\* returns without any effect.
C17_UnimplementedPanics ==
    /\ [][\A tid \in Tids :
            /\ Calls(tid, {"Other"}) =>
                  /\ threads'[tid].pan.k \notin {"none", "failure", "nil"}
                  /\ threads'[tid].stack = threads[tid].stack
            /\ Calls(tid, {"Helper"}) =>
                  /\ threads'[tid].pan = NoPanic
                  /\ EffectsAfter = Effects
            /\ Calls(tid, RecordOps \cup LogOps) =>
                  /\ threads'[tid].pan = NoPanic
                  /\ EffectsAfter # Effects
            /\ Calls(tid, FatalOps) => threads'[tid].pan.k = "failure"]_vars
    /\ [](\A c \in catches : c.k # "runtime")
    /\ []((/\ input.op = "CaptureFatal"
            /\ IsFlat(input.fns[1])
            /\ Verdict(input.fns[1]) = "panics"
            /\ input.fns[1].body[FirstStop(input.fns[1])].op = "Other"
            /\ MainDone)
           => /\ Propagated
              /\ threads[Main].pan = RuntimePanic("nil pointer dereference")
              /\ threads[Main].rv.k \notin {"present", "absent"}
              /\ doubles[First(Main)].result.k = "propagated")

\* CaptureFatal has let the panic of an unimplemented method reach the test.
C17_Witness ==
    /\ input.op = "CaptureFatal"
    /\ input.fns[1].body = <<HelperStep(1), OtherStep(1)>>
    /\ Propagated
    /\ threads[Main].pan = RuntimePanic("nil pointer dereference")
    /\ doubles[First(Main)].result.k = "propagated"

-----------------------------------------------------------------------------
(* C18 *)

\* The formats of the failures ExpectFatal, ExpectError and ParallelFatal
\* raise on their context.
AssertFormats == {ExpectFatalFormat, ExpectErrorFormat, ParallelFatalFormat}

\* The failures harness functions called inside fn raised on double d.
Asserted(d) ==
    SelectSeq(doubles[d].calls,
              LAMBDA c : c.op = "Fatalf" /\ c.format \in AssertFormats)

\* C18: when a function run by CaptureFatal (called by the test directly or
\* through ExpectFatal) calls ExpectFatal, ExpectError or ParallelFatal with
\* its double as context and that call raises its failure on the double, the
\* real context receives no failure, and CaptureFatal returns present with the
\* message of that failure.
C18_InnerFailureCaptured ==
    (/\ input.op \in {"CaptureFatal", "ExpectFatal"}
     /\ First(Main) \in DOMAIN doubles
     /\ Asserted(First(Main)) # <<>>)
    => /\ CtxFailures = <<>>
       /\ Len(Asserted(First(Main))) = 1
       /\ doubles[First(Main)].result.k \in {"running", "present"}
       /\ MainDone =>
             /\ Returned
             /\ doubles[First(Main)].result = Present(MsgOf(Asserted(First(Main))[1]))
             /\ threads[Main].rv.v = MsgOf(Asserted(First(Main))[1])
             /\ threads[Main].rv.k = IF input.op = "CaptureFatal" THEN "present" ELSE "string"

\* The function called ParallelFatal on its double with a function that calls
\* FailNow: CaptureFatal has returned ParallelFatal's message.
C18_Witness ==
    /\ input.op = "CaptureFatal"
    /\ input.fns[1].body = <<CallStep("ParallelFatal", 1, <<Fn("g", <<FailNowStep(1)>>)>>)>>
    /\ Returned
    /\ threads[Main].rv = Present("ParallelFatal: 1 functions failed fatally: map[g:]")
    /\ CtxFailures = <<>>

-----------------------------------------------------------------------------
(* C19 *)

\* Goroutine tid leaves a CaptureFatal frame: its deferred function has run.
Leaves(tid) ==
    /\ tid \in DOMAIN threads
    /\ threads[tid].stack # <<>>
    /\ Top(tid).k = "CaptureFatal"
    /\ Top(tid).pc = "running"
    /\ Len(threads'[tid].stack) < Len(threads[tid].stack)

\* The ways CaptureFatal is left: with a message, with nil, or panicking.
Outcome(th) ==
    {o \in {"FatalCaptured", "CompletedNormally", "Propagated"} :
        \/ o = "FatalCaptured" /\ th.rv.k = "present"
        \/ o = "CompletedNormally" /\ th.rv.k = "absent"
        \/ o = "Propagated" /\ th.pan # NoPanic}

\* C19: an invocation of CaptureFatal that is over ended in exactly one way: it
\* returned a message, or it returned nil, or it went on panicking, never a
\* result together with a panic; the way it ended does not change afterwards;
\* it returned a message only if it recovered a failure that stopped fn, and
\* for a function that runs to its end it returns nil.
C19_OneTerminalOutcome ==
    /\ [][\A tid \in Tids :
            Leaves(tid) =>
                /\ Cardinality(Outcome(threads'[tid])) = 1
                /\ doubles[Top(tid).obj].result.k = "running"
                /\ doubles'[Top(tid).obj].result.k =
                      (CASE Outcome(threads'[tid]) = {"FatalCaptured"} -> "present"
                         [] Outcome(threads'[tid]) = {"CompletedNormally"} -> "absent"
                         [] OTHER -> "propagated")]_vars
    /\ [][\A d \in DOMAIN doubles :
            (doubles[d].maker = "CaptureFatal" /\ doubles[d].result.k # "running")
            => doubles'[d].result = doubles[d].result]_vars
    /\ [](\A d \in DOMAIN doubles :
            (doubles[d].maker = "CaptureFatal" /\ doubles[d].result.k = "present") =>
                \E c \in catches : c.barrier = d /\ c.k = "failure")
    /\ []((/\ input.op = "CaptureFatal"
            /\ IsFlat(input.fns[1])
            /\ Verdict(input.fns[1]) = "returns"
            /\ MainDone)
           => Returned /\ threads[Main].rv = Absent)

\* Two invocations are over: the inner one returned the message of a FailNow,
\* the outer one let the panic of an unimplemented method pass.
C19_Witness ==
    /\ input.op = "CaptureFatal"
    /\ input.fns[1].body =
          <<CallStep("CaptureFatal", 1, <<Fn("g", <<FailNowStep(1)>>)>>), OtherStep(1)>>
    /\ Propagated
    /\ doubles[<<Main, 2>>].result = Present("")
    /\ doubles[<<Main, 1>>].result.k = "propagated"

====
